---- MODULE Spec2Model ----
(***************************************************************************)
(* The soda machine API: the product and transaction tables, the startup   *)
(* seeding, the intent parser (app/services/ai_parser.py) and the          *)
(* POST /interact/ purchase workflow (app/main.py).                        *)
(*                                                                         *)
(* Text is a sequence of one-character strings, so that strip(), lower(),  *)
(* the substring test and SQL LIKE are computed character by character.    *)
(* A float is the exact integer number of units of 2^-51 it denotes, kept  *)
(* in three limbs of 20 bits (least significant first), so that the        *)
(* rounding of every float multiplication is computed and not assumed.     *)
(* Transaction.timestamp (datetime.now) is not modelled: nothing reads it. *)
(***************************************************************************)
EXTENDS Integers, Sequences, FiniteSets, TLC

(***************************************************************************)
(* Text                                                                    *)
(***************************************************************************)
UpperAscii == <<"A", "C", "E", "G", "I", "L", "N", "O", "P", "R", "S", "U">>
LowerAscii == <<"a", "c", "e", "g", "i", "l", "n", "o", "p", "r", "s", "u">>

\* SQLite's lower() and LIKE fold the ASCII letters only (listed: those that
\* occur in the names drawn below).
AsciiLowerChar(c) ==
    IF \E i \in 1..Len(UpperAscii) : UpperAscii[i] = c
    THEN LowerAscii[CHOOSE i \in 1..Len(UpperAscii) : UpperAscii[i] = c]
    ELSE c

\* Python's str.lower() folds every cased character.
PyLowerChar(c) == IF c = "Á" THEN "á" ELSE AsciiLowerChar(c)

PyLower(s) == [i \in 1..Len(s) |-> PyLowerChar(s[i])]

SqlLower(s) == [i \in 1..Len(s) |-> AsciiLowerChar(s[i])]

IsSpace(c) == c = " "

RECURSIVE LStrip(_)
LStrip(s) == IF s # <<>> /\ IsSpace(Head(s)) THEN LStrip(Tail(s)) ELSE s

RECURSIVE RStrip(_)
RStrip(s) ==
    IF s # <<>> /\ IsSpace(s[Len(s)]) THEN RStrip(SubSeq(s, 1, Len(s) - 1)) ELSE s

\* str.strip()
Strip(s) == RStrip(LStrip(s))

\* Python's `sub in s`
Contains(sub, s) ==
    \E i \in 0..(Len(s) - Len(sub)) : SubSeq(s, i + 1, i + Len(sub)) = sub

\* SQLite's `value LIKE pattern`: % is any run of characters, _ is any one
\* character, every other character matches itself up to ASCII case.
RECURSIVE Like(_, _)
Like(value, pattern) ==
    IF pattern = <<>> THEN value = <<>>
    ELSE IF Head(pattern) = "%"
         THEN Like(value, Tail(pattern))
              \/ (value # <<>> /\ Like(Tail(value), pattern))
         ELSE /\ value # <<>>
              /\ \/ Head(pattern) = "_"
                 \/ AsciiLowerChar(Head(pattern)) = AsciiLowerChar(Head(value))
              /\ Like(Tail(value), Tail(pattern))

\* Column.ilike(pattern), which the SQLite dialect renders as
\* lower(column) LIKE lower(pattern).
ILike(value, pattern) == Like(SqlLower(value), SqlLower(pattern))

(***************************************************************************)
(* Floats                                                                  *)
(***************************************************************************)
Base == 2 ^ 20

RECURSIVE BitLen(_)
BitLen(n) == IF n = 0 THEN 0 ELSE 1 + BitLen(n \div 2)

Zero == <<0, 0, 0>>

\* The limbs of 2^e.
PowerOfTwo(e) ==
    [i \in 1..3 |-> IF i = (e \div 20) + 1 THEN 2 ^ (e % 20) ELSE 0]

Normal(c0, c1, c2) ==
    LET k1 == c1 + (c0 \div Base)
    IN  <<c0 % Base, k1 % Base, c2 + (k1 \div Base)>>

MulSmall(x, q) == Normal(x[1] * q, x[2] * q, x[3] * q)

AddExact(x, y) == Normal(x[1] + y[1], x[2] + y[2], x[3] + y[3])

\* Floor division by a small integer: [quot, rem].
DivSmall(x, d) ==
    LET q3 == x[3] \div d
        r3 == x[3] % d
        q2 == (r3 * Base + x[2]) \div d
        r2 == (r3 * Base + x[2]) % d
        q1 == (r2 * Base + x[1]) \div d
        r1 == (r2 * Base + x[1]) % d
    IN  [quot |-> Normal(q1, q2, q3), rem |-> r1]

LessEq(x, y) ==
    \/ x[3] < y[3]
    \/ x[3] = y[3] /\ x[2] < y[2]
    \/ x[3] = y[3] /\ x[2] = y[2] /\ x[1] <= y[1]

Bits(x) ==
    IF x[3] # 0 THEN 40 + BitLen(x[3])
    ELSE IF x[2] # 0 THEN 20 + BitLen(x[2]) ELSE BitLen(x[1])

\* IEEE 754 round-to-nearest, ties-to-even, to a 53-bit significand, of the
\* exact value x + rem/den (0 <= rem < den), for x of at least 53 bits.
RoundToDouble(x, rem, den) ==
    LET k    == Bits(x) - 53
        unit == 2 ^ k
        low  == x[1] % unit
        odd  == ((x[1] \div unit) % 2) = 1
        down == Normal(x[1] - low, x[2], x[3])
        up   == Normal(x[1] - low + unit, x[2], x[3])
        roundsUp ==
            IF k = 0
            THEN 2 * rem > den \/ (2 * rem = den /\ odd)
            ELSE \/ 2 * low > unit
                 \/ 2 * low = unit /\ rem > 0
                 \/ 2 * low = unit /\ rem = 0 /\ odd
    IN  IF roundsUp THEN up ELSE down

\* The float a decimal literal num/den denotes (2.20 is 220/100).
FloatLiteral(num, den) ==
    LET d == DivSmall(MulSmall(PowerOfTwo(51), num), den)
    IN  RoundToDouble(d.quot, d.rem, den)

\* float * int, as `product.price * quantity` computes it.
FloatTimesInt(x, q) == RoundToDouble(MulSmall(x, q), 0, 1)

(***************************************************************************)
(* Bounds and inputs                                                       *)
(***************************************************************************)
\* Database sessions open at once (requests in flight).
NumSessions == 2

\* Requests accepted in one run.
MaxRequests == 2

Sessions == 1..NumSessions

CocaCola == <<"C", "o", "c", "a", "-", "C", "o", "l", "a">>
Pepsi    == <<"P", "e", "p", "s", "i">>
Guarana  == <<"G", "u", "a", "r", "a", "n", "á">>

\* Product names the language service may hand back.
RequestedNames ==
    { <<" ", "c", "o", "c", "a", "-", "C", "O", "L", "A", " ">>,
      <<"P", "E", "P", "S", "I">>,
      <<"G", "U", "A", "R", "A", "N", "Á">>,
      <<"c", "o", "l", "a">>,
      <<"a">>,
      <<"S", "p", "r", "i", "t", "e">>,
      <<"P", "%">> }

RequestedQuantities == {-1, 0, 2, 3, 78, 121}

NoData == [cls |-> "None", product_name |-> <<>>, quantity |-> 0, reason |-> <<>>]

PurchaseData(n, q) == [NoData EXCEPT !.cls = "PurchaseIntent", !.product_name = n, !.quantity = q]

UnknownData(r) == [NoData EXCEPT !.cls = "UnknownIntent", !.reason = r]

\* What the language service does with one prompt: the call (or reading
\* response.text) raises exc, or the text holds no {...}, or the {...} is not
\* JSON, or it is a JSON object.  Of the object only what validation reads is
\* kept: whether "type" is there and a string, and the shape of "data"
\* ("absent", "null", "scalar", "other": an object fitting neither schema,
\* "purchase", "unknown").
NoOutcome ==
    [kind |-> "none", exc |-> "", typeKey |-> "absent", type |-> "",
     dataKey |-> "absent", data |-> NoData]

Raises(e) == [NoOutcome EXCEPT !.kind = "raise", !.exc = e]

Json(tk, t, dk, d) ==
    [NoOutcome EXCEPT !.kind = "json", !.typeKey = tk, !.type = t, !.dataKey = dk, !.data = d]

AmbiguousText == <<"Texto ambíguo ou incompleto">>

FailureOutcomes ==
    { Raises("ResourceExhausted"), Raises("ValueError"),
      [NoOutcome EXCEPT !.kind = "nobrace"],
      [NoOutcome EXCEPT !.kind = "badjson"],
      Json("absent", "", "purchase", PurchaseData(Pepsi, 2)),
      Json("number", "", "unknown", UnknownData(AmbiguousText)),
      Json("string", "purchase", "other", NoData),
      Json("string", "purchase", "scalar", NoData),
      Json("string", "unknown", "absent", NoData) }

UnknownOutcomes == { Json("string", "unknown", "unknown", UnknownData(AmbiguousText)) }

MismatchedOutcomes ==
    { Json("string", "purchase", "unknown", UnknownData(AmbiguousText)),
      Json("string", "unknown", "purchase", PurchaseData(Pepsi, 2)),
      Json("string", "refund", "purchase", PurchaseData(Pepsi, 2)),
      Json("string", "purchase", "null", NoData) }

PurchaseOutcomes(names, quantities) ==
    { Json("string", "purchase", "purchase", PurchaseData(n, q)) :
        n \in names, q \in quantities }

ServiceOutcomes ==
    FailureOutcomes \cup UnknownOutcomes \cup MismatchedOutcomes
    \cup PurchaseOutcomes(RequestedNames, RequestedQuantities)

\* The outcomes drawn when requests interleave.
ConcurrentOutcomes ==
    UnknownOutcomes
    \cup PurchaseOutcomes({<<"P", "E", "P", "S", "I">>, <<"c", "o", "l", "a">>},
                          {0, 3, 78, 121})

(***************************************************************************)
(* The intent parser                                                       *)
(***************************************************************************)
NoIntent == [raised |-> "", type |-> "", data |-> NoData]

UserIntent(t, d) == [raised |-> "", type |-> t, data |-> d]

\* UserIntent(**parsed_json): the field that fails validation, "" if none.
\* type is a required str; data is required, and None or an object that
\* validates as PurchaseIntent or as UnknownIntent.
ValidationError(typeKey, dataKey) ==
    IF typeKey # "string" THEN "type"
    ELSE IF dataKey \notin {"null", "purchase", "unknown"} THEN "data"
    ELSE ""

\* The try block: [exc, value], exc the class of the exception raised or "".
TryBody(o) ==
    IF o.kind = "raise" THEN [exc |-> o.exc, field |-> "", value |-> NoIntent]
    ELSE IF o.kind = "badjson"
    THEN [exc |-> "JSONDecodeError", field |-> "", value |-> NoIntent]
    ELSE LET tk == IF o.kind = "nobrace" THEN "absent" ELSE o.typeKey
             dk == IF o.kind = "nobrace" THEN "absent" ELSE o.dataKey
             bad == ValidationError(tk, dk)
         IN  IF bad # ""
             THEN [exc |-> "ValidationError", field |-> bad, value |-> NoIntent]
             ELSE [exc |-> "", field |-> "", value |-> UserIntent(o.type, o.data)]

\* Classes that `except Exception` catches: every exception the service
\* call, the regex and json.loads raise derives from Exception.
IsException(e) == e \in {"ResourceExhausted", "ValueError", "JSONDecodeError", "ValidationError"}

\* Faulty variant: the `except Exception` clause is left out.
ParseUserMessageOnlyValidation(o) ==
    LET r == TryBody(o)
    IN  IF r.exc = "" THEN r.value
        ELSE IF r.exc = "ValidationError"
        THEN UserIntent("unknown", UnknownData(<<"Erro de validação: ", r.field>>))
        ELSE [NoIntent EXCEPT !.raised = r.exc]

ParseUserMessage(o) ==
    LET r == TryBody(o)
    IN  IF r.exc = "" THEN r.value
        ELSE IF r.exc = "ValidationError"
        THEN UserIntent("unknown", UnknownData(<<"Erro de validação: ", r.field>>))
        ELSE IF IsException(r.exc)
        THEN UserIntent("unknown", UnknownData(<<"Erro com Gemini: ", r.exc>>))
        ELSE [NoIntent EXCEPT !.raised = r.exc]

(***************************************************************************)
(* State                                                                   *)
(***************************************************************************)
VARIABLES
    started,        \* the startup hook has run
    products,       \* the product table, row id -> [id, name, price, stock]
    transactions,   \* the transaction table, in id order
    req,            \* per session: the request it serves and the handler's locals
    accepted        \* requests accepted so far

vars == <<started, products, transactions, req, accepted>>

CocaColaStock == 100
PepsiStock == 80
GuaranaStock == 120

Product(i, n, p, st) == [id |-> i, name |-> n, price |-> p, stock |-> st]

NoProduct == Product(0, <<>>, Zero, 0)

SeedProducts ==
    << Product(1, CocaCola, FloatLiteral(250, 100), CocaColaStock),
       Product(2, Pepsi, FloatLiteral(220, 100), PepsiStock),
       Product(3, Guarana, FloatLiteral(200, 100), GuaranaStock) >>

Transaction(i, pid, q, total) ==
    [id |-> i, product_id |-> pid, quantity |-> q, total_price |-> total]

NoTransaction == Transaction(0, 0, 0, Zero)

NoResponse ==
    [status |-> 0, detail |-> "", reason |-> <<>>, name |-> <<>>, available |-> 0,
     quantity |-> 0, total |-> Zero, stock_restante |-> 0,
     product |-> NoProduct, transaction |-> NoTransaction]

HTTPException(code, text) == [NoResponse EXCEPT !.status = code, !.detail = text]

IdleRequest ==
    [pc |-> "idle", outcome |-> NoOutcome, intent |-> NoIntent,
     product |-> NoProduct, response |-> NoResponse]

Init ==
    /\ started = FALSE
    /\ products = <<>>
    /\ transactions = <<>>
    /\ req = [s \in Sessions |-> IdleRequest]
    /\ accepted = 0

\* The startup hook: the tables are created, and seeded if there is no product.
Startup ==
    /\ ~started
    /\ started' = TRUE
    /\ products' = IF products = <<>> THEN SeedProducts ELSE products
    /\ UNCHANGED <<transactions, req, accepted>>

(***************************************************************************)
(* Product resolution                                                      *)
(***************************************************************************)
\* The orders in which a SELECT without ORDER BY may return n rows.
Orders(n) == { o \in [1..n -> 1..n] : \A i, j \in 1..n : o[i] = o[j] => i = j }

\* .first() of the rows in `ids`, enumerated in `order`: a row id, or 0.
First(order, ids) ==
    IF \A i \in DOMAIN order : order[i] \notin ids THEN 0
    ELSE order[CHOOSE i \in DOMAIN order :
                 /\ order[i] \in ids
                 /\ \A j \in 1..(i - 1) : order[j] \notin ids]

Row(db, i) == IF i = 0 THEN NoProduct ELSE db[i]

\* select(Product).where(Product.name.ilike(name)).first()
ExactMatch(db, name, order) ==
    First(order, { i \in DOMAIN db : ILike(db[i].name, name) })

\* The loop over select(Product.name): the first name that contains the
\* requested one, then the row of exactly that name.
FallbackMatch(db, name, order) ==
    LET hit == First(order, { i \in DOMAIN db : Contains(PyLower(name), PyLower(db[i].name)) })
    IN  IF hit = 0 THEN 0
        ELSE First([i \in DOMAIN db |-> i], { i \in DOMAIN db : db[i].name = db[hit].name })

\* `order` is the enumeration order of whichever query decides: the fallback
\* runs only when the first query returned no row.
ResolveProduct(db, name, order) ==
    LET exact == ExactMatch(db, name, order)
    IN  IF exact # 0 THEN Row(db, exact) ELSE Row(db, FallbackMatch(db, name, order))

(***************************************************************************)
(* POST /interact/                                                         *)
(***************************************************************************)
IsPurchaseBranch(intent) == intent.type = "purchase" /\ intent.data.cls = "PurchaseIntent"

\* Faulty variant: the isinstance test is left out.
IsUnknownBranchByType(intent) == intent.type = "unknown"

IsUnknownBranch(intent) == intent.type = "unknown" /\ intent.data.cls = "UnknownIntent"

\* Faulty variant: zero is let through.
InvalidQuantityNegative(quantity) == quantity < 0

InvalidQuantity(quantity) == quantity <= 0

\* Faulty variant: only an empty stock is refused.
InsufficientStockWhenEmpty(product, quantity) == product.stock <= 0

\* Faulty variant: one unit too many is let through.
InsufficientStockOffByOne(product, quantity) == product.stock + 1 < quantity

InsufficientStock(product, quantity) == product.stock < quantity

\* Faulty variant: the reason is left out of the detail.
UnknownResponseWithoutReason(intent) == HTTPException(400, "Intenção não compreendida: ")

UnknownResponse(intent) ==
    [HTTPException(400, "Intenção não compreendida: ") EXCEPT !.reason = intent.data.reason]

\* The handler from the parse to the stock check: the request ends there with
\* an error response, or holds the product it loaded and goes on to commit.
Validate(intent, db, order) ==
    IF intent.raised # ""
    THEN [pc |-> "done", product |-> NoProduct,
          response |-> HTTPException(500, "Internal Server Error")]
    ELSE IF IsPurchaseBranch(intent)
    THEN LET name == Strip(intent.data.product_name)
             quantity == intent.data.quantity
             product == ResolveProduct(db, name, order)
         IN  IF InvalidQuantity(quantity)
             THEN [pc |-> "done", product |-> NoProduct,
                   response |-> HTTPException(400, "A quantidade deve ser positiva.")]
             ELSE IF product = NoProduct
             THEN [pc |-> "done", product |-> NoProduct,
                   response |-> [HTTPException(404, "Produto não encontrado.")
                                   EXCEPT !.name = name]]
             ELSE IF InsufficientStock(product, quantity)
             THEN [pc |-> "done", product |-> product,
                   response |-> [HTTPException(400, "Estoque insuficiente. Disponível: ")
                                   EXCEPT !.available = product.stock]]
             ELSE [pc |-> "checked", product |-> product, response |-> NoResponse]
    ELSE IF IsUnknownBranch(intent)
    THEN [pc |-> "done", product |-> NoProduct, response |-> UnknownResponse(intent)]
    ELSE [pc |-> "done", product |-> NoProduct,
          response |-> HTTPException(500, "Erro inesperado ao interpretar a mensagem.")]

\* A request arrives on session s, which get_session opens; the service
\* answers with one of `outcomes`.
Interact(s, outcomes) ==
    /\ started
    /\ req[s].pc = "idle"
    /\ accepted < MaxRequests
    /\ \E o \in outcomes, order \in Orders(Len(products)) :
         LET intent == ParseUserMessage(o)
             v == Validate(intent, products, order)
         IN  req' = [req EXCEPT ![s] =
                       [pc |-> v.pc, outcome |-> o, intent |-> intent,
                        product |-> v.product, response |-> v.response]]
    /\ accepted' = accepted + 1
    /\ UNCHANGED <<started, products, transactions>>

\* Variant: the decrement is applied to the row's current stock
\* (UPDATE product SET stock = stock - ?).
NewStockInDatabase(product, quantity, db) == db[product.id].stock - quantity

\* The stock the session writes back: the loaded object's stock less quantity.
NewStock(product, quantity, db) == product.stock - quantity

\* Faulty variant: the quantity is left out of the total.
TotalPriceOfOne(product, quantity) == product.price

TotalPrice(product, quantity) == FloatTimesInt(product.price, quantity)

\* The rest of the handler: the stock is lowered on the loaded object, the
\* transaction is built, and both are flushed (UPDATE product SET stock = ?
\* WHERE id = ?, INSERT INTO transaction) and committed.
Commit(s) ==
    /\ req[s].pc = "checked"
    /\ LET quantity == req[s].intent.data.quantity
           loaded == req[s].product
           product == [loaded EXCEPT !.stock = NewStock(loaded, quantity, products)]
           total == TotalPrice(loaded, quantity)
           transaction == Transaction(Len(transactions) + 1, product.id, quantity, total)
       IN  /\ products' = [products EXCEPT ![product.id].stock = product.stock]
           /\ transactions' = Append(transactions, transaction)
           /\ req' = [req EXCEPT ![s].pc = "done",
                                 ![s].product = products'[product.id],
                                 ![s].response =
                                    [NoResponse EXCEPT
                                       !.status = 200,
                                       !.detail = "success",
                                       !.quantity = quantity,
                                       !.total = total,
                                       !.stock_restante = products'[product.id].stock,
                                       !.product = products'[product.id],
                                       !.transaction = transaction]]
    /\ UNCHANGED <<started, accepted>>

\* The response is sent and get_session closes the session.
Release(s) ==
    /\ req[s].pc = "done"
    /\ req' = [req EXCEPT ![s] = IdleRequest]
    /\ UNCHANGED <<started, products, transactions, accepted>>

\* Requests served one at a time.
Serve(s) ==
    /\ \A t \in Sessions \ {s} : req[t].pc = "idle"
    /\ Interact(s, ServiceOutcomes)

Next ==
    \/ Startup
    \/ \E s \in Sessions : Serve(s)
    \/ \E s \in Sessions : Commit(s)
    \/ \E s \in Sessions : Release(s)

Spec == Init /\ [][Next]_vars

\* Requests served concurrently, each on its own session.
Accept(s) == Interact(s, ConcurrentOutcomes)

ConcNext ==
    \/ Startup
    \/ \E s \in Sessions : Accept(s)
    \/ \E s \in Sessions : Commit(s)
    \/ \E s \in Sessions : Release(s)

ConcSpec == Init /\ [][ConcNext]_vars

(***************************************************************************)
(* Properties                                                              *)
(***************************************************************************)
\* Session s runs the handler from the parse to the stock check in this step.
Validated(s) == req[s].pc = "idle" /\ req'[s].pc # "idle"

\* Session s commits its purchase in this step.
Committed(s) == req[s].pc = "checked" /\ req'[s].pc = "done"

TablesUnchanged == products' = products /\ transactions' = transactions

IsPurchase(intent) == intent.type = "purchase" /\ intent.data.cls = "PurchaseIntent"

IsUnknown(intent) == intent.type = "unknown" /\ intent.data.cls = "UnknownIntent"

RECURSIVE SumQuantities(_, _)
SumQuantities(txs, pid) ==
    IF txs = <<>> THEN 0
    ELSE (IF Head(txs).product_id = pid THEN Head(txs).quantity ELSE 0)
         + SumQuantities(Tail(txs), pid)

RECURSIVE SumTotals(_, _)
SumTotals(txs, pid) ==
    IF txs = <<>> THEN Zero
    ELSE AddExact(IF Head(txs).product_id = pid THEN Head(txs).total_price ELSE Zero,
                  SumTotals(Tail(txs), pid))

\* C1: in every reachable state, requests interleaving or not, every product
\* row has stock >= 0.
C1_StockNeverNegative == \A i \in DOMAIN products : products[i].stock >= 0

\* A request has committed while another, past its stock check on the same
\* product, still holds the stock it loaded before that commit.
C1_Witness ==
    \E s, t \in Sessions :
        /\ s # t
        /\ req[s].pc = "done" /\ req[s].response.status = 200
        /\ req[t].pc = "checked"
        /\ req[t].product.id = req[s].product.id
        /\ req[t].product.stock > products[req[t].product.id].stock
        /\ req[t].intent.data.quantity > products[req[t].product.id].stock

\* C2: served alone, a purchase of q > 0 on a product with stock s >= q and
\* price p passes the checks and commits exactly: that product's stock becomes
\* s - q, one transaction (that product's id, q, p * q) is appended, and no
\* other product row and no existing transaction row changes.
C2_PurchaseCommitsExactly ==
    [][\A s \in Sessions :
          /\ Validated(s) /\ IsPurchase(req'[s].intent)
             /\ req'[s].intent.data.quantity > 0
             /\ req'[s].product # NoProduct
             /\ products[req'[s].product.id].stock >= req'[s].intent.data.quantity
             => req'[s].pc = "checked" /\ req'[s].product = products[req'[s].product.id]
          /\ Committed(s) =>
               LET p == req[s].product
                   q == req[s].intent.data.quantity
               IN  /\ p = products[p.id] /\ q > 0 /\ p.stock >= q
                   /\ products' = [products EXCEPT ![p.id].stock = p.stock - q]
                   /\ transactions' =
                        Append(transactions,
                               Transaction(Len(transactions) + 1, p.id, q,
                                           FloatTimesInt(products[p.id].price, q)))
                   /\ req'[s].response.status = 200
                   /\ req'[s].response.stock_restante = p.stock - q]_vars

\* The seed example: 3 Coca-Cola at 2.50 leave stock 97 and record 7.50.
C2_Witness ==
    /\ \E s \in Sessions : req[s].pc = "done" /\ req[s].response.status = 200
    /\ products[1].name = CocaCola /\ products[1].stock = 97
    /\ products[2].stock = PepsiStock /\ products[3].stock = GuaranaStock
    /\ transactions = <<Transaction(1, 1, 3, FloatLiteral(750, 100))>>

\* C3: a purchase of q greater than the resolved product's current stock
\* fails with the 400 insufficient-stock error reporting that stock, and
\* leaves every product and transaction row as it was.
C3_InsufficientStockRejected ==
    [][\A s \in Sessions :
          /\ Validated(s) /\ IsPurchase(req'[s].intent)
             /\ req'[s].product # NoProduct
             /\ req'[s].intent.data.quantity > products[req'[s].product.id].stock
             => /\ req'[s].pc = "done"
                /\ req'[s].response =
                     [HTTPException(400, "Estoque insuficiente. Disponível: ")
                        EXCEPT !.available = products[req'[s].product.id].stock]
                /\ TablesUnchanged
          /\ Validated(s) /\ req'[s].response.detail = "Estoque insuficiente. Disponível: "
             => req'[s].intent.data.quantity > req'[s].response.available]_vars

\* After 78 of the 80 Pepsi were sold, a purchase of 3 is refused with 2 left.
C3_Witness ==
    \E s \in Sessions :
        /\ req[s].pc = "done"
        /\ req[s].response.status = 400
        /\ req[s].response.detail = "Estoque insuficiente. Disponível: "
        /\ req[s].response.available = 2
        /\ req[s].intent.data.quantity = 3
        /\ products[2].stock = 2
        /\ Len(transactions) = 1

\* C4: a purchase intent with quantity <= 0 fails with the 400
\* invalid-quantity error whether or not the name matches a product, before
\* any product is resolved, and changes no row.
C4_InvalidQuantityRejected ==
    [][\A s \in Sessions :
          Validated(s) /\ IsPurchase(req'[s].intent)
          /\ req'[s].intent.data.quantity <= 0
          => /\ req'[s].pc = "done"
             /\ req'[s].response = HTTPException(400, "A quantidade deve ser positiva.")
             /\ req'[s].product = NoProduct
             /\ TablesUnchanged]_vars

\* Quantity 0 of a product that does not exist is refused as a bad quantity.
C4_Witness ==
    \E s \in Sessions :
        /\ req[s].pc = "done"
        /\ req[s].intent.data.product_name = <<"S", "p", "r", "i", "t", "e">>
        /\ req[s].intent.data.quantity = 0
        /\ req[s].response.status = 400
        /\ req[s].response.detail = "A quantidade deve ser positiva."

\* C5: a request past its stock check commits without reading the stock
\* again: it writes the stock it loaded less its quantity and records its
\* transaction, whatever the product's stock has become meanwhile. Two
\* requests that passed the check on the same stock value therefore both
\* commit, and the recorded quantities can exceed the stock there was.
C5_CommitIgnoresCurrentStock ==
    [][\A s \in Sessions :
          Committed(s) =>
            LET p == req[s].product
                q == req[s].intent.data.quantity
            IN  /\ products'[p.id].stock = p.stock - q
                /\ Len(transactions') = Len(transactions) + 1
                /\ transactions'[Len(transactions')].product_id = p.id
                /\ transactions'[Len(transactions')].quantity = q]_vars

\* Oversold: two committed transactions of one product, each within the
\* seeded stock, that together exceed it.
C5_Witness ==
    \E i \in DOMAIN products :
        /\ Len(transactions) = 2
        /\ \A k \in 1..2 : /\ transactions[k].product_id = i
                           /\ transactions[k].quantity <= SeedProducts[i].stock
        /\ SumQuantities(transactions, i) > SeedProducts[i].stock
        /\ products[i].stock >= 0

\* C6: the product resolved for the stripped name n is the one whose name
\* equals n ignoring case if there is one, otherwise one whose lowercased name
\* contains lowercased n (the first enumerated), otherwise the request fails
\* with 404 and changes no row.
C6_ResolutionAsSpecified ==
    [][\A s \in Sessions :
          Validated(s) /\ IsPurchase(req'[s].intent)
          /\ req'[s].intent.data.quantity > 0
          => LET n == Strip(req'[s].intent.data.product_name)
                 same == { i \in DOMAIN products :
                             PyLower(products[i].name) = PyLower(n) }
                 containing == { i \in DOMAIN products :
                                   Contains(PyLower(n), PyLower(products[i].name)) }
             IN  IF same # {} THEN req'[s].product.id \in same
                 ELSE IF containing # {} THEN req'[s].product.id \in containing
                 ELSE /\ req'[s].product = NoProduct
                      /\ req'[s].response.status = 404
                      /\ TablesUnchanged]_vars

\* C7: an Unknown intent is answered with 400, the reason embedded in the
\* message, and no product or transaction row changes.
C7_UnknownIntentRejected ==
    [][\A s \in Sessions :
          Validated(s) /\ IsUnknown(req'[s].intent)
          => /\ req'[s].pc = "done"
             /\ req'[s].response.status = 400
             /\ req'[s].response.detail = "Intenção não compreendida: "
             /\ req'[s].response.reason = req'[s].intent.data.reason
             /\ req'[s].response.reason # <<>>
             /\ TablesUnchanged]_vars

C7_Witness ==
    \E s \in Sessions :
        /\ req[s].pc = "done"
        /\ req[s].outcome \in UnknownOutcomes
        /\ req[s].response.status = 400
        /\ req[s].response.reason = AmbiguousText

\* C8: whatever way the service call, the JSON extraction, the decoding or
\* the validation fails, parse_user_message raises nothing and returns an
\* intent of type 'unknown' carrying an UnknownIntent reason.
C8_ParserNeverRaises ==
    \A s \in Sessions :
        req[s].pc # "idle" /\ req[s].outcome \in FailureOutcomes
        => /\ req[s].intent.raised = ""
           /\ req[s].intent.type = "unknown"
           /\ req[s].intent.data.cls = "UnknownIntent"
           /\ req[s].intent.data.reason # <<>>
           /\ req[s].response.status = 400

\* A response that is not JSON comes back as an unknown intent.
C8_Witness ==
    \E s \in Sessions :
        /\ req[s].outcome.kind = "badjson"
        /\ req[s].intent.type = "unknown"
        /\ req[s].intent.data.reason = <<"Erro com Gemini: ", "JSONDecodeError">>

C10_LedgerWithinSeededValue ==
    started =>
      \A i \in DOMAIN products :
          /\ LessEq(SumTotals(transactions, i),
                    FloatTimesInt(products[i].price, SeedProducts[i].stock))
          /\ products[i].stock + SumQuantities(transactions, i) = SeedProducts[i].stock

====
